---- MODULE Spec2Model ----
(***************************************************************************)
(* A model of the task runner of task.go: Run, RunTask, Task.runDeps,      *)
(* Task.isUpToDate and Task.runCommand.                                    *)
(*                                                                         *)
(* A string is a sequence of atomic pieces (<<"^", "B">> is "^B"); a       *)
(* template is a sequence of literal pieces and ${VAR} placeholders.  Each *)
(* invocation of RunTask is a frame; the frames of one run are kept in     *)
(* creation order and are never removed, so that a frame records what the  *)
(* invocation did.                                                         *)
(***************************************************************************)
EXTENDS Integers, Sequences, FiniteSets, TLC

\* ------------------------------------------------------------------ bounds

\* the largest number of RunTask invocations of one run
MaxFrames == 7
\* the largest modification time a file has before the run starts
MaxInitTime == 2
\* the number of file writes of one run
MaxWrites == 4

\* ----------------------------------------------------------------- strings

L(s) == [k |-> "lit", v |-> <<s>>]
V(s) == [k |-> "var", v |-> <<s>>]

RECURSIVE Flatten(_)
Flatten(ss) == IF ss = <<>> THEN <<>> ELSE Head(ss) \o Flatten(Tail(ss))

Max(S) == CHOOSE x \in S : \A y \in S : y <= x
Min(S) == CHOOSE x \in S : \A y \in S : x <= y

\* strings.HasPrefix(c, "^") and strings.TrimPrefix(c, "^")
HasPrefix(c) == Len(c) > 0 /\ c[1] = "^"
TrimPrefix(c) == IF HasPrefix(c) THEN Tail(c) ELSE c

IsSpace(p) == p \in {" ", "\n"}

\* strings.TrimSpace: leading and trailing white space removed
RECURSIVE TrimLeft(_)
TrimLeft(s) == IF s # <<>> /\ IsSpace(Head(s)) THEN TrimLeft(Tail(s)) ELSE s
RECURSIVE TrimRight(_)
TrimRight(s) ==
    IF s # <<>> /\ IsSpace(s[Len(s)]) THEN TrimRight(SubSeq(s, 1, Len(s) - 1)) ELSE s
TrimSpace(s) == TrimLeft(TrimRight(s))

\* ReplaceVariables: every placeholder replaced by its value; a placeholder
\* of an undeclared variable is an error
ReplaceVariables(tmpl, vars) ==
    IF \E j \in 1..Len(tmpl) : tmpl[j].k = "var" /\ tmpl[j].v[1] \notin DOMAIN vars
    THEN [err |-> TRUE, s |-> <<>>]
    ELSE [err |-> FALSE,
          s |-> Flatten([j \in 1..Len(tmpl) |->
                   IF tmpl[j].k = "var" THEN vars[tmpl[j].v[1]] ELSE tmpl[j].v])]

\* ------------------------------------------------------------------ errors

\* an error is a string; nil is the empty one
Nil == <<>>
TaskNotFound(name) == <<"task not found:">> \o name
TaskRunError(name, err) == <<"task run error:">> \o name \o <<":">> \o err
SubstError == <<"substitution failed">>
VarsError == <<"variables failed">>
ExitError(c) == <<"exit status 1:">> \o c
CyclicError == <<"Cyclic dependency detected">>

\* --------------------------------------------------------------- the files

Files == {"s1", "s2", "g1", "g2"}

\* the files a glob pattern names; "[" is a malformed pattern
GlobErr(p) == p = "["
Glob(p) ==
    CASE p = "s*" -> {"s1", "s2"}
      [] p = "g*" -> {"g1", "g2"}
      [] p \in Files -> {p}
      [] OTHER -> {}

Matched(patterns, mt) ==
    {f \in Files : mt[f] > 0 /\ \E j \in 1..Len(patterns) : f \in Glob(patterns[j])}

\* getPatternsMaxTime, getPatternsMinTime: t = 0 is the zero time
getPatternsMaxTime(patterns, mt) ==
    IF \E j \in 1..Len(patterns) : GlobErr(patterns[j]) THEN [err |-> TRUE, t |-> 0]
    ELSE IF Matched(patterns, mt) = {} THEN [err |-> FALSE, t |-> 0]
    ELSE [err |-> FALSE, t |-> Max({mt[f] : f \in Matched(patterns, mt)})]

getPatternsMinTime(patterns, mt) ==
    IF \E j \in 1..Len(patterns) : GlobErr(patterns[j]) THEN [err |-> TRUE, t |-> 0]
    ELSE IF Matched(patterns, mt) = {} THEN [err |-> FALSE, t |-> 0]
    ELSE [err |-> FALSE, t |-> Min({mt[f] : f \in Matched(patterns, mt)})]

\* ------------------------------------------------------ external commands

\* what the process of command c does when it is left to finish: its exit
\* status, the files it writes and its standard output
ShellOk(c) == ~(Len(c) > 0 /\ c[1] = "false")
ShellWrites(c) == IF Len(c) = 2 /\ c[1] = "touch" /\ c[2] \in Files THEN {c[2]} ELSE {}
ShellOutput(c) == IF Len(c) > 0 /\ c[1] = "echo" THEN Tail(c) \o <<"\n">> ELSE <<>>

\* --------------------------------------------------------------- the tasks

\* type Task struct
Task(cmds, deps) ==
    [Cmds |-> cmds, Deps |-> deps, Sources |-> <<>>, Generates |-> <<>>,
     Dir |-> <<>>, Vars |-> <<>>, Set |-> "", Env |-> {}]

Sh(c) == [j \in 1..Len(c) |-> L(c[j])]
Ref(n) == <<L(n)>>
Sub(n) == <<L("^"), L(n)>>

\* an entry of Task.Env: the template of the key and the template of the value
EnvEntry(k, v) == [k |-> k, v |-> v]

\* a variable whose value cannot be computed
Unresolvable == <<"$", "false">>

RegFanFail ==
    [A |-> Task(<<Sh(<<"true">>), Sh(<<"true">>)>>, <<Ref("B"), Ref("C")>>),
     B |-> Task(<<Sh(<<"false">>)>>, <<>>),
     C |-> Task(<<Sh(<<"true">>), Sh(<<"true">>)>>, <<>>)]

RegFanOk ==
    [A |-> Task(<<Sh(<<"true">>), Sh(<<"false">>), Sh(<<"true">>)>>, <<Ref("B"), Ref("C")>>),
     B |-> Task(<<Sh(<<"true">>)>>, <<>>),
     C |-> Task(<<Sh(<<"true">>), Sh(<<"true">>)>>, <<>>),
     D |-> Task(<<>>, <<Ref("B"), Ref("C")>>)]

RegDiamond ==
    [A |-> Task(<<Sh(<<"true">>)>>, <<Ref("B"), Ref("C")>>),
     B |-> Task(<<Sh(<<"true">>)>>, <<Ref("D")>>),
     C |-> Task(<<Sh(<<"true">>)>>, <<Ref("D")>>),
     D |-> Task(<<Sh(<<"true">>), Sh(<<"true">>)>>, <<>>)]

RegCycle ==
    [A |-> Task(<<Sh(<<"true">>)>>, <<>>),
     B |-> [Task(<<Sh(<<"echo", "x">>)>>, <<>>) EXCEPT !.Set = "OUT"],
     C |-> Task(<<Sh(<<"true">>)>>, <<Ref("D")>>),
     D |-> Task(<<Sh(<<"true">>)>>, <<Ref("C")>>)]

RegSub ==
    [A |-> Task(<<Sh(<<"true">>), Sub("B"), Sh(<<"true">>)>>, <<>>),
     B |-> Task(<<Sh(<<"true">>)>>, <<Ref("C")>>),
     C |-> Task(<<Sh(<<"true">>)>>, <<>>),
     D |-> [Task(<<<<V("X")>>, Sh(<<"true">>)>>, <<>>) EXCEPT !.Vars = [X |-> <<"^", "B">>]]]

RegSubFail ==
    [A |-> [Task(<<Sh(<<"true">>), <<V("X")>>, Sh(<<"true">>)>>, <<>>)
             EXCEPT !.Vars = [X |-> <<"^", "B">>]],
     B |-> Task(<<Sh(<<"true">>), Sub("C")>>, <<>>),
     C |-> Task(<<Sh(<<"false">>)>>, <<>>)]

RegMissing ==
    [A |-> [Task(<<Sh(<<"true">>)>>, <<<<V("T")>>, Ref("C")>>) EXCEPT !.Vars = [T |-> <<"Z">>]],
     B |-> Task(<<Sh(<<"true">>), Sub("Z"), Sh(<<"true">>)>>, <<>>),
     C |-> Task(<<Sh(<<"true">>)>>, <<>>),
     D |-> Task(<<Sh(<<"true">>)>>, <<Ref("Z")>>)]

RegFiles ==
    [A |-> [Task(<<Sh(<<"touch", "g1">>), Sh(<<"touch", "g2">>)>>, <<>>)
             EXCEPT !.Sources = <<"s*">>, !.Generates = <<"g*">>],
     B |-> [Task(<<Sh(<<"touch", "g1">>)>>, <<>>)
             EXCEPT !.Sources = <<"s1", "s2">>, !.Generates = <<"g1", "none">>],
     C |-> [Task(<<Sh(<<"true">>)>>, <<Ref("B")>>)
             EXCEPT !.Sources = <<"s1">>, !.Generates = <<"g2">>],
     D |-> [Task(<<Sh(<<"touch", "g2">>)>>, <<>>)
             EXCEPT !.Sources = <<"s2", "[">>, !.Generates = <<"g2">>]]

RegFilesSub ==
    [A |-> Task(<<Sub("B"), Sh(<<"touch", "s1">>)>>, <<>>),
     B |-> [Task(<<Sh(<<"touch", "g1">>)>>, <<Ref("C")>>)
             EXCEPT !.Sources = <<"s1">>, !.Generates = <<"g1">>],
     C |-> [Task(<<Sh(<<"touch", "g2">>)>>, <<>>)
             EXCEPT !.Sources = <<"s2">>, !.Generates = <<"g2">>],
     D |-> [Task(<<Sh(<<"touch", "g1">>)>>, <<Ref("E")>>)
             EXCEPT !.Sources = <<"s1">>, !.Generates = <<"g1">>],
     E |-> Task(<<Sh(<<"false">>)>>, <<>>)]

RegRecursive ==
    [A |-> Task(<<Sub("A")>>, <<>>),
     B |-> [Task(<<Sh(<<"true">>)>>, <<<<V("S")>>>>) EXCEPT !.Vars = [S |-> <<"B">>]]]

RegVars ==
    [A |-> Task(<<Sh(<<"true">>)>>, <<<<V("U")>>, Ref("C")>>),
     B |-> Task(<<Sh(<<"true">>), <<L("echo"), V("U")>>>>, <<>>),
     C |-> [Task(<<Sh(<<"true">>)>>, <<>>) EXCEPT !.Dir = <<V("U")>>],
     D |-> [Task(<<Sh(<<"true">>)>>, <<Ref("C")>>) EXCEPT !.Vars = [W |-> Unresolvable]]]

RegSet ==
    [default |-> [Task(<<Sh(<<"echo", "hello">>), Sh(<<"echo", " ", "a", " ">>)>>, <<Ref("A")>>)
             EXCEPT !.Set = "OUT"],
     A |-> [Task(<<Sh(<<"echo", "b">>), Sh(<<"false">>)>>, <<>>) EXCEPT !.Set = "OUT"]]

RegChainFail ==
    [A |-> Task(<<Sh(<<"true">>)>>, <<Ref("B"), Ref("D")>>),
     B |-> Task(<<Sh(<<"true">>)>>, <<Ref("C")>>),
     C |-> Task(<<Sh(<<"false">>)>>, <<>>),
     D |-> Task(<<Sh(<<"true">>)>>, <<Ref("E")>>),
     E |-> Task(<<Sh(<<"true">>)>>, <<>>)]

RegEnv ==
    [A |-> [Task(<<Sh(<<"true">>), Sh(<<"true">>)>>, <<Ref("B")>>)
             EXCEPT !.Vars = [M |-> <<"fast">>, K |-> <<"MODE">>],
                    !.Env = {EnvEntry(<<V("K")>>, <<V("M")>>),
                             EnvEntry(<<L("OUT")>>, <<L("shadow")>>)}],
     B |-> [Task(<<Sh(<<"echo", " ", "v", " ">>), Sh(<<"true">>)>>, <<>>)
             EXCEPT !.Set = "OUT", !.Env = {EnvEntry(<<L("MODE")>>, <<L("slow")>>)}],
     C |-> [Task(<<Sh(<<"echo", "c">>)>>, <<>>)
             EXCEPT !.Set = "OUT", !.Env = {EnvEntry(<<L("MODE")>>, <<V("U")>>)}],
     D |-> Task(<<Sh(<<"echo", "d">>), Sub("B"), Sh(<<"true">>)>>, <<>>)]

Registries ==
    {RegFanFail, RegFanOk, RegDiamond, RegCycle, RegSub, RegSubFail, RegMissing,
     RegFiles, RegFilesSub, RegRecursive, RegVars, RegSet, RegChainFail, RegEnv}

\* the task names a run may be asked for
Requests ==
    {<<>>, <<"A">>, <<"B">>, <<"C">>, <<"D">>, <<"Z">>, <<"A", "A">>, <<"A", "B">>,
     <<"B", "A">>, <<"D", "C">>, <<"A", "Z">>, <<"Z", "A">>, <<"B", "Z", "C">>}

\* the environment variables a task may set
EnvNames == {"OUT", "MODE"}

\* handleVariables: the task's variables, or an error
handleVariables(t) ==
    [err |-> \E v \in DOMAIN t.Vars : t.Vars[v] = Unresolvable, vars |-> t.Vars]

\* HasCyclicDep: some task reaches itself along the Deps entries
Edge(tasks, a, b) == \E j \in 1..Len(tasks[a].Deps) : tasks[a].Deps[j] = Ref(b)

RECURSIVE ReachFrom(_, _, _)
ReachFrom(tasks, S, n) ==
    IF n = 0 THEN S
    ELSE ReachFrom(tasks,
                   S \cup {b \in DOMAIN tasks : \E a \in S : Edge(tasks, a, b)}, n - 1)

HasCyclicDep(tasks) ==
    \E a \in DOMAIN tasks :
        a \in ReachFrom(tasks, {b \in DOMAIN tasks : Edge(tasks, a, b)},
                        Cardinality(DOMAIN tasks))

\* isUpToDate with !sourcesMaxTime.After(generatesMinTime) for its result
isUpToDateNotBefore(t, mt) ==
    IF Len(t.Sources) = 0 \/ Len(t.Generates) = 0 THEN FALSE
    ELSE LET sourcesMaxTime == getPatternsMaxTime(t.Sources, mt)
             generatesMinTime == getPatternsMinTime(t.Generates, mt)
         IN IF sourcesMaxTime.err \/ sourcesMaxTime.t = 0 THEN FALSE
            ELSE IF generatesMinTime.err \/ generatesMinTime.t = 0 THEN FALSE
            ELSE generatesMinTime.t >= sourcesMaxTime.t

\* Task.isUpToDate, over the modification times mt
isUpToDate(t, mt) ==
    IF Len(t.Sources) = 0 \/ Len(t.Generates) = 0 THEN FALSE
    ELSE LET sourcesMaxTime == getPatternsMaxTime(t.Sources, mt)
             generatesMinTime == getPatternsMinTime(t.Generates, mt)
         IN IF sourcesMaxTime.err \/ sourcesMaxTime.t = 0 THEN FALSE
            ELSE IF generatesMinTime.err \/ generatesMinTime.t = 0 THEN FALSE
            ELSE generatesMinTime.t > sourcesMaxTime.t

\* ------------------------------------------------------------------- state

VARIABLES
    Tasks,      \* the registry
    args,       \* the requested task names
    Force,      \* the --force flag
    Watch,      \* the --watch flag
    runpc,      \* where Run is
    argi,       \* the index of the request Run is at
    frames,     \* the RunTask invocations of the run, in creation order
    mtime,      \* the modification time of each file, 0 for a file that is absent
    writes,     \* the number of file writes so far
    environ,    \* the process environment
    printed,    \* what Run printed
    fatal       \* the error log.Fatal ended the run with

vars == <<Tasks, args, Force, Watch, runpc, argi, frames, mtime, writes, environ,
          printed, fatal>>

ZeroTimes == [f \in Files |-> 0]

\* a RunTask invocation that has not begun: a requested task ("top"), the
\* unit of a Deps entry ("dep", its name not yet substituted) or the task of a
\* '^' command ("sub"); ctx is the frame whose errgroup context it runs under,
\* 0 for context.Background()
NewFrame(kind, parent, slot, ctx, name) ==
    [kind |-> kind, parent |-> parent, slot |-> slot, ctx |-> ctx, name |-> name,
     pc |-> "call", i |-> 0, started |-> <<>>, procs |-> {}, res |-> <<>>,
     err |-> Nil, gerr |-> Nil, cancelled |-> FALSE, depsOk |-> FALSE,
     checked |-> FALSE, skipped |-> FALSE, mtc |-> ZeroTimes, mte |-> ZeroTimes,
     envs |-> <<>>]

Exists(name) == Len(name) = 1 /\ name[1] \in DOMAIN Tasks
TaskOf(fr) == Tasks[fr.name[1]]

\* the files matter to a registry that names some
UsesFiles(tasks) ==
    \E a \in DOMAIN tasks : tasks[a].Sources # <<>> \/ tasks[a].Generates # <<>>

Init ==
    /\ Tasks \in Registries
    /\ args \in Requests
    /\ Force \in BOOLEAN
    /\ Watch \in BOOLEAN
    /\ runpc = "start"
    /\ argi = 0
    /\ frames = <<>>
    /\ mtime \in IF UsesFiles(Tasks) THEN [Files -> 0..MaxInitTime] ELSE {ZeroTimes}
    /\ writes = 0
    /\ environ = [n \in EnvNames |-> <<>>]
    /\ printed = <<>>
    /\ fatal = Nil

\* --------------------------------------------------------------------- Run

\* Run without its cycle check
RunPreambleNoCycleCheck(tasks, a, watch) ==
    IF \E j \in 1..Len(a) : a[j] \notin DOMAIN tasks
    THEN LET j == Min({k \in 1..Len(a) : a[k] \notin DOMAIN tasks})
         IN [pc |-> "returned", fatal |-> Nil, out |-> <<TaskNotFound(<<a[j]>>)>>]
    ELSE IF watch THEN [pc |-> "watch", fatal |-> Nil, out |-> <<>>]
    ELSE [pc |-> "loop", fatal |-> Nil, out |-> <<>>]

\* Run leaving out the requests that are not in the registry
RunPreambleSkipMissing(tasks, a, watch) ==
    IF HasCyclicDep(tasks) THEN [pc |-> "fatal", fatal |-> CyclicError, out |-> <<>>]
    ELSE [pc |-> IF watch THEN "watch" ELSE "loop", fatal |-> Nil,
          out |-> LET missing == {k \in 1..Len(a) : a[k] \notin DOMAIN tasks}
                  IN IF missing # {} THEN <<TaskNotFound(<<a[Min(missing)]>>)>> ELSE <<>>]

\* Run, up to its loop over the requests: the default request, the cycle
\* check, the check that the requested tasks exist, the watch mode
RunPreamble(tasks, a, watch) ==
    IF HasCyclicDep(tasks) THEN [pc |-> "fatal", fatal |-> CyclicError, out |-> <<>>]
    ELSE IF \E j \in 1..Len(a) : a[j] \notin DOMAIN tasks
    THEN LET j == Min({k \in 1..Len(a) : a[k] \notin DOMAIN tasks})
         IN [pc |-> "returned", fatal |-> Nil, out |-> <<TaskNotFound(<<a[j]>>)>>]
    ELSE IF watch THEN [pc |-> "watch", fatal |-> Nil, out |-> <<>>]
    ELSE [pc |-> "loop", fatal |-> Nil, out |-> <<>>]

RunStart ==
    /\ runpc = "start"
    /\ LET a == IF Len(args) = 0 THEN <<"default">> ELSE args
           r == RunPreamble(Tasks, a, Watch)
       IN /\ args' = a
          /\ runpc' = r.pc
          /\ fatal' = r.fatal
          /\ printed' = printed \o r.out
    /\ argi' = 1
    /\ UNCHANGED <<Tasks, Force, Watch, frames, mtime, writes, environ>>

\* Run calls RunTask(context.Background(), a)
RunCall ==
    /\ runpc = "loop"
    /\ Len(frames) < MaxFrames
    /\ frames' = Append(frames, NewFrame("top", 0, argi, 0, <<args[argi]>>))
    /\ runpc' = "wait"
    /\ UNCHANGED <<Tasks, args, Force, Watch, argi, mtime, writes, environ, printed, fatal>>

TopFrame(fs, k) == CHOOSE f \in DOMAIN fs : fs[f].kind = "top" /\ fs[f].slot = k

\* Run going on to the next request whatever RunTask returned
RunAfterIgnoreError(err, k, n) ==
    [pc |-> IF k + 1 > n THEN "done" ELSE "loop", fatal |-> Nil, argi |-> k + 1]

\* what Run does with the error RunTask returned for request k of n
RunAfter(err, k, n) ==
    IF err # Nil THEN [pc |-> "fatal", fatal |-> err, argi |-> k]
    ELSE [pc |-> IF k + 1 > n THEN "done" ELSE "loop", fatal |-> Nil, argi |-> k + 1]

RunReturn ==
    /\ runpc = "wait"
    /\ frames[TopFrame(frames, argi)].pc = "done"
    /\ LET r == RunAfter(frames[TopFrame(frames, argi)].err, argi, Len(args))
       IN /\ runpc' = r.pc
          /\ fatal' = r.fatal
          /\ argi' = r.argi
    /\ UNCHANGED <<Tasks, args, Force, Watch, frames, mtime, writes, environ, printed>>

\* ----------------------------------------------------------------- RunTask

\* the context of errgroup frame c is done: the group or a group above it
\* was cancelled
RECURSIVE Cancelled(_, _)
Cancelled(fs, c) == c # 0 /\ (fs[c].cancelled \/ Cancelled(fs, fs[c].ctx))

Units(fs, f) == {u \in DOMAIN fs : fs[u].kind = "dep" /\ fs[u].parent = f}

\* RunTask returns e; the unit of a Deps entry hands its error to the group,
\* which keeps the first one and cancels its context
Finish(fs, f, e, mt) ==
    LET g == [fs EXCEPT ![f].pc = "done", ![f].err = e, ![f].mte = mt]
        p == fs[f].parent
    IN IF fs[f].kind = "dep" /\ e # Nil /\ fs[p].gerr = Nil
       THEN [g EXCEPT ![p].gerr = e, ![p].cancelled = TRUE]
       ELSE g

\* runDeps starting no unit for a Deps entry whose task a RunTask already runs
\* or has run
DepUnitsOnce(fs, f) ==
    LET t == TaskOf(fs[f])
        Seen(j) == \E u \in DOMAIN fs :
                      u # f /\ fs[u].name = ReplaceVariables(t.Deps[j], handleVariables(t).vars).s
        idx == SelectSeq([j \in 1..Len(t.Deps) |-> j], LAMBDA j : ~Seen(j))
    IN [k \in 1..Len(idx) |-> NewFrame("dep", f, idx[k], f, <<>>)]

\* the units runDeps of frame f starts: one g.Go for each entry of Deps, all
\* under the context of the group
DepUnits(fs, f) ==
    [j \in 1..Len(TaskOf(fs[f]).Deps) |-> NewFrame("dep", f, j, f, <<>>)]

\* RunTask looks the task up and runDeps starts one unit for each Deps entry;
\* a unit first substitutes the variables in its entry
Enter(f) ==
    /\ f \in DOMAIN frames
    /\ frames[f].pc = "call"
    /\ LET fr == frames[f]
           r == IF fr.kind = "dep"
                THEN LET pt == TaskOf(frames[fr.parent])
                     IN ReplaceVariables(pt.Deps[fr.slot], handleVariables(pt).vars)
                ELSE [err |-> FALSE, s |-> fr.name]
           named == [frames EXCEPT ![f].name = r.s]
       IN IF r.err THEN frames' = Finish(frames, f, SubstError, mtime)
          ELSE IF ~Exists(r.s) THEN frames' = Finish(named, f, TaskNotFound(r.s), mtime)
          ELSE IF handleVariables(Tasks[r.s[1]]).err
          THEN frames' = Finish(named, f, VarsError, mtime)
          ELSE LET deps == Tasks[r.s[1]].Deps
               IN /\ Len(frames) + Len(deps) <= MaxFrames
                  /\ frames' = [named EXCEPT ![f].pc = "wait"] \o DepUnits(named, f)
    /\ UNCHANGED <<Tasks, args, Force, Watch, runpc, argi, mtime, writes, environ,
                   printed, fatal>>

\* g.Wait() returning as soon as one unit has returned
WaitAny(fs, f) == Units(fs, f) = {} \/ \E u \in Units(fs, f) : fs[u].pc = "done"

\* g.Wait() returning as soon as the group has an error
WaitFirstError(fs, f) ==
    fs[f].gerr # Nil \/ \A u \in Units(fs, f) : fs[u].pc = "done"

\* g.Wait() returns: every unit of the group has returned
WaitDone(fs, f) == \A u \in Units(fs, f) : fs[u].pc = "done"

\* runDeps wrapping the error of g.Wait() with the name of its task
DepsResultWrapped(name, e) == TaskRunError(name, e)

\* runDeps returning nil whatever g.Wait() returned
DepsResultDropped(name, e) == Nil

\* what runDeps returns for the error e of g.Wait()
DepsResult(name, e) == e

DepsReturn(f) ==
    /\ f \in DOMAIN frames
    /\ frames[f].pc = "wait"
    /\ WaitDone(frames, f)
    /\ LET g == [frames EXCEPT ![f].cancelled = TRUE]
       IN frames' = IF frames[f].gerr # Nil
                    THEN Finish(g, f, DepsResult(frames[f].name, frames[f].gerr), mtime)
                    ELSE [g EXCEPT ![f].pc = "check", ![f].depsOk = TRUE]
    /\ UNCHANGED <<Tasks, args, Force, Watch, runpc, argi, mtime, writes, environ,
                   printed, fatal>>

\* the shortcut taken whatever Force is
ShouldSkipIgnoringForce(force, t, mt) == isUpToDate(t, mt)

\* the shortcut taken for the task that is not up to date
ShouldSkipInverted(force, t, mt) == ~force /\ ~isUpToDate(t, mt)

\* !Force && t.isUpToDate()
ShouldSkip(force, t, mt) == ~force /\ isUpToDate(t, mt)

\* the loop over the commands stepping by two
NextCmdSkipping(fs, f, mt) ==
    IF fs[f].i + 2 > Len(TaskOf(fs[f]).Cmds) THEN Finish(fs, f, Nil, mt)
    ELSE [fs EXCEPT ![f].i = @ + 2, ![f].pc = "cmds"]

\* the next command of the task, or the end of RunTask
NextCmd(fs, f, mt) ==
    IF fs[f].i + 1 > Len(TaskOf(fs[f]).Cmds) THEN Finish(fs, f, Nil, mt)
    ELSE [fs EXCEPT ![f].i = @ + 1, ![f].pc = "cmds"]

Check(f) ==
    /\ f \in DOMAIN frames
    /\ frames[f].pc = "check"
    /\ LET g == [frames EXCEPT ![f].checked = TRUE, ![f].mtc = mtime]
       IN frames' = IF ShouldSkip(Force, TaskOf(frames[f]), mtime)
                    THEN Finish([g EXCEPT ![f].skipped = TRUE], f, Nil, mtime)
                    ELSE NextCmd(g, f, mtime)
    /\ UNCHANGED <<Tasks, args, Force, Watch, runpc, argi, mtime, writes, environ,
                   printed, fatal>>

\* -------------------------------------------------------------- runCommand

\* command i of task t with its variables substituted
Command(t, i) == ReplaceVariables(t.Cmds[i], handleVariables(t).vars)

\* RunTask going on to the next command whatever runCommand returned
CmdReturnContinue(fs, f, e, mt) == NextCmd([fs EXCEPT ![f].res = Append(@, e)], f, mt)

\* RunTask returning the error of runCommand as it is
CmdReturnUnwrapped(fs, f, e, mt) ==
    LET g == [fs EXCEPT ![f].res = Append(@, e)]
    IN IF e # Nil THEN Finish(g, f, e, mt) ELSE NextCmd(g, f, mt)

\* runCommand returned e for the command RunTask is at
CmdReturn(fs, f, e, mt) ==
    LET g == [fs EXCEPT ![f].res = Append(@, e)]
    IN IF e # Nil THEN Finish(g, f, TaskRunError(fs[f].name, e), mt)
       ELSE NextCmd(g, f, mt)

\* the orders in which range may go through the map Task.Env
Orders(S) ==
    {o \in [1..Cardinality(S) -> S] : \A e \in S : \E j \in 1..Cardinality(S) : o[j] = e}

\* Task.getEnviron: nil for a task without Env, else the entries of Env with
\* key and value substituted, in the order o, to go after os.Environ()
getEnviron(t, vs, o) ==
    IF t.Env = {} THEN [err |-> FALSE, extra |-> <<>>]
    ELSE IF \E e \in t.Env : ReplaceVariables(e.v, vs).err \/ ReplaceVariables(e.k, vs).err
    THEN [err |-> TRUE, extra |-> <<>>]
    ELSE [err |-> FALSE,
          extra |-> [j \in 1..Len(o) |-> <<ReplaceVariables(o[j].k, vs).s,
                                            ReplaceVariables(o[j].v, vs).s>>]]

\* getEnviron writing the entries of Env into the process environment
EnvironExported(env, extra) ==
    [n \in EnvNames |->
        IF \E j \in 1..Len(extra) : extra[j][1] = <<n>>
        THEN extra[CHOOSE j \in 1..Len(extra) : extra[j][1] = <<n>>][2]
        ELSE env[n]]

\* the process environment after getEnviron built the list extra: as before
EnvironAfter(env, extra) == env

\* the environment the process of command i gets: os.Environ() as it is when
\* the process starts, then the entries of Env
ProcEnv(i, env, extra) == [cmd |-> i, base |-> env, extra |-> extra]

\* runCommand up to the start of the process or of the sub-task
CmdStart(f) ==
    /\ f \in DOMAIN frames
    /\ frames[f].pc = "cmds"
    /\ LET fr == frames[f]
           t == TaskOf(fr)
           hv == handleVariables(t)
           c == Command(t, fr.i)
           g == [frames EXCEPT ![f].started = Append(@, fr.i)]
       IN IF hv.err THEN frames' = CmdReturn(g, f, VarsError, mtime) /\ environ' = environ
          ELSE IF c.err
          THEN frames' = CmdReturn(g, f, SubstError, mtime) /\ environ' = environ
          ELSE IF HasPrefix(c.s)
          THEN /\ Len(frames) < MaxFrames
               /\ frames' = Append([g EXCEPT ![f].pc = "sub"],
                                   NewFrame("sub", f, fr.i, fr.ctx, TrimPrefix(c.s)))
               /\ environ' = environ
          ELSE IF ReplaceVariables(t.Dir, hv.vars).err
          THEN frames' = CmdReturn(g, f, SubstError, mtime) /\ environ' = environ
          ELSE \E o \in Orders(t.Env) :
                 LET ge == getEnviron(t, hv.vars, o)
                 IN IF ge.err
                    THEN frames' = CmdReturn(g, f, SubstError, mtime) /\ environ' = environ
                    ELSE /\ environ' = EnvironAfter(environ, ge.extra)
                         /\ frames' = [g EXCEPT ![f].pc = "exec",
                                                ![f].procs = @ \cup {fr.i},
                                                ![f].envs = Append(@,
                                                    ProcEnv(fr.i, environ', ge.extra))]
    /\ UNCHANGED <<Tasks, args, Force, Watch, runpc, argi, mtime, writes, printed, fatal>>

\* how the process of command c ends under context ctx: a process that was
\* started is left to finish, whether or not the context is done by then
Exits(fs, ctx, c) == {IF ShellOk(c) THEN Nil ELSE ExitError(c)}

\* os.Setenv given the output as the process wrote it
SetValueRaw(c) == ShellOutput(c)

\* the value os.Setenv gives the variable
SetValue(c) == TrimSpace(ShellOutput(c))

\* os.Setenv called whatever execext.RunCommand returned
EnvironAfterExitAlways(env, t, c, e) ==
    IF t.Set # "" THEN [env EXCEPT ![t.Set] = SetValue(c)] ELSE env

\* the process environment after the process of command c of task t ended
\* with e: the variable t.Set is written when Set is not empty and e is nil
EnvironAfterExit(env, t, c, e) ==
    IF e = Nil /\ t.Set # "" THEN [env EXCEPT ![t.Set] = SetValue(c)] ELSE env

\* execext.RunCommand returns, and runCommand after it
CmdExit(f) ==
    /\ f \in DOMAIN frames
    /\ frames[f].pc = "exec"
    /\ LET fr == frames[f]
           t == TaskOf(fr)
           c == Command(t, fr.i).s
       IN \E e \in Exits(frames, fr.ctx, c) :
            LET w == IF e = Nil THEN ShellWrites(c) ELSE {}
                mt == [x \in Files |-> IF x \in w THEN MaxInitTime + writes + 1
                                       ELSE mtime[x]]
            IN /\ w # {} => writes < MaxWrites
               /\ mtime' = mt
               /\ writes' = IF w # {} THEN writes + 1 ELSE writes
               /\ environ' = EnvironAfterExit(environ, t, c, e)
               /\ frames' = CmdReturn(frames, f, e, mt)
    /\ UNCHANGED <<Tasks, args, Force, Watch, runpc, argi, printed, fatal>>

SubFrame(fs, f) ==
    CHOOSE u \in DOMAIN fs : fs[u].kind = "sub" /\ fs[u].parent = f /\ fs[u].slot = fs[f].i

\* runCommand returning nil for a '^' command whatever its RunTask returned
SubResultDropped(e) == Nil

\* what runCommand returns for a '^' command whose RunTask returned e
SubResult(e) == e

\* the RunTask of a '^' command returns
SubReturn(f) ==
    /\ f \in DOMAIN frames
    /\ frames[f].pc = "sub"
    /\ frames[SubFrame(frames, f)].pc = "done"
    /\ frames' = CmdReturn(frames, f, SubResult(frames[SubFrame(frames, f)].err), mtime)
    /\ UNCHANGED <<Tasks, args, Force, Watch, runpc, argi, mtime, writes, environ,
                   printed, fatal>>

\* -------------------------------------------------------------------- Spec

Next ==
    \/ RunStart
    \/ RunCall
    \/ RunReturn
    \/ \E f \in 1..(MaxFrames + 1) : Enter(f)
    \/ \E f \in 1..(MaxFrames + 1) : DepsReturn(f)
    \/ \E f \in 1..(MaxFrames + 1) : Check(f)
    \/ \E f \in 1..(MaxFrames + 1) : CmdStart(f)
    \/ \E f \in 1..(MaxFrames + 1) : CmdExit(f)
    \/ \E f \in 1..(MaxFrames + 1) : SubReturn(f)

Spec == Init /\ [][Next]_vars

\* ------------------------------------------------------------------ claims

Cmds(fr) == TaskOf(fr).Cmds
Deps(fr) == TaskOf(fr).Deps
Entered(fr) == fr.pc # "call" /\ Exists(fr.name)

\* C1: an invocation of RunTask starts no command of its task before every
\* unit runDeps launched, one for each Deps entry, has returned without error
C1_DepsBeforeCommands ==
    \A f \in DOMAIN frames :
        (\/ Entered(frames[f]) /\ frames[f].pc \notin {"wait", "done"}
         \/ frames[f].started # <<>>)
        => /\ Cardinality(Units(frames, f)) = Len(Deps(frames[f]))
           /\ \A u \in Units(frames, f) : frames[u].pc = "done" /\ frames[u].err = Nil

C1_Witness ==
    \E f \in DOMAIN frames :
        /\ frames[f].started # <<>>
        /\ Len(Deps(frames[f])) = 2
        /\ \A u \in Units(frames, f) : frames[u].started # <<>>

\* the task called name runs to success when nothing else interferes: its
\* variables resolve, its Deps entries and '^' commands name tasks that do,
\* and its processes exit with status 0 (n bounds the depth of the calls)
RECURSIVE RunsClean(_, _)
RunsClean(name, n) ==
    /\ n > 0
    /\ Exists(name)
    /\ LET t == Tasks[name[1]]
           hv == handleVariables(t)
       IN /\ ~hv.err
          /\ \A j \in 1..Len(t.Deps) :
                LET d == ReplaceVariables(t.Deps[j], hv.vars)
                IN ~d.err /\ RunsClean(d.s, n - 1)
          /\ \A j \in 1..Len(t.Cmds) :
                LET c == ReplaceVariables(t.Cmds[j], hv.vars)
                IN /\ ~c.err
                   /\ IF HasPrefix(c.s) THEN RunsClean(TrimPrefix(c.s), n - 1)
                      ELSE ShellOk(c.s) /\ ~ReplaceVariables(t.Dir, hv.vars).err

\* C2: when a task has Deps = [X, Y], X fails and Y succeeds on its own,
\* RunTask of the task returns the error of X and starts none of its commands
C2_FirstDepError ==
    \A p \in DOMAIN frames :
        \A x, y \in Units(frames, p) :
            /\ frames[p].pc = "done"
            /\ Len(Deps(frames[p])) = 2
            /\ x # y
            /\ frames[x].pc = "done" /\ frames[x].err # Nil
            /\ frames[y].pc # "call" /\ RunsClean(frames[y].name, MaxFrames)
            => /\ frames[p].err = frames[x].err
               /\ frames[p].started = <<>>

C2_Witness ==
    \E p \in DOMAIN frames :
        \E x, y \in Units(frames, p) :
            /\ frames[p].pc = "done"
            /\ Len(Deps(frames[p])) = 2
            /\ x # y
            /\ frames[x].err # Nil
            /\ RunsClean(frames[y].name, MaxFrames)
            /\ frames[y].pc = "done" /\ Len(frames[y].started) = 2
            /\ frames[y].slot = 2

\* C3: when the registry has a dependency cycle anywhere, Run ends before any
\* task is run: no RunTask is called, no file and no variable is written
C3_CycleAborts ==
    HasCyclicDep(Tasks)
    => /\ frames = <<>>
       /\ writes = 0
       /\ \A n \in EnvNames : environ[n] = <<>>
       /\ runpc \in {"start", "fatal"}
       /\ runpc = "fatal" => fatal = CyclicError

C3_Witness ==
    /\ HasCyclicDep(Tasks)
    /\ runpc = "fatal"
    /\ args = <<"B", "A">>
    /\ \A j \in 1..Len(args) : ~Edge(Tasks, args[j], args[j]) /\ Tasks[args[j]].Deps = <<>>

\* the Deps entry or '^' command that frame f was called for has a name
Named(f) ==
    \/ frames[f].kind # "dep"
    \/ LET pt == TaskOf(frames[frames[f].parent])
       IN ~ReplaceVariables(pt.Deps[frames[f].slot], handleVariables(pt).vars).err

Children(f) == {u \in DOMAIN frames : frames[u].parent = f}

\* C4: RunTask for a name that is not in the registry returns the
\* task-not-found error and runs nothing; the task whose Deps entry named it
\* fails without starting a command, and the task whose '^' command named it
\* fails with that error and starts no later command
C4_TaskNotFound ==
    \A f \in DOMAIN frames :
        frames[f].pc # "call" /\ Named(f) /\ ~Exists(frames[f].name)
        => LET fr == frames[f]
               p == frames[fr.parent]
           IN /\ fr.pc = "done"
              /\ fr.err = TaskNotFound(fr.name)
              /\ fr.started = <<>> /\ Children(f) = {}
              /\ fr.kind \in {"dep", "sub"}
              /\ fr.kind = "dep"
                 => /\ p.started = <<>>
                    /\ p.pc \in {"wait", "done"}
                    /\ p.gerr # Nil
                    /\ p.pc = "done" => p.err # Nil
              /\ fr.kind = "sub"
                 => /\ p.pc \in {"sub", "done"}
                    /\ p.started = [k \in 1..fr.slot |-> k]
                    /\ p.pc = "done" => p.err = TaskRunError(p.name, TaskNotFound(fr.name))

C4_Witness ==
    \E f \in DOMAIN frames :
        /\ frames[f].pc = "done" /\ ~Exists(frames[f].name)
        /\ frames[f].kind = "sub"
        /\ frames[frames[f].parent].pc = "done"
        /\ Len(Cmds(frames[frames[f].parent])) > frames[f].slot

Missing == {j \in 1..Len(args) : args[j] \notin DOMAIN Tasks}
TopFrames(j) == {f \in DOMAIN frames : frames[f].kind = "top" /\ frames[f].slot = j}

\* C5 as stated: when a requested name is not in the registry, Run reports it
\* and leaves out that request alone: every requested name that is in the
\* registry has been run when Run ends
C5_SkipsOnlyMissing ==
    runpc \in {"returned", "done"} /\ Missing # {}
    => /\ \E j \in Missing : printed = <<TaskNotFound(<<args[j]>>)>>
       /\ \A j \in 1..Len(args) :
              j \notin Missing
              => \E f \in TopFrames(j) : frames[f].pc = "done"

\* C5 as amended: when a requested name is not in the registry (and the
\* registry has no cycle), Run reports the first such name and returns
\* without running any requested task
C5_MissingRequestEndsRun ==
    runpc # "start" /\ ~HasCyclicDep(Tasks) /\ Missing # {}
    => /\ runpc = "returned"
       /\ printed = <<TaskNotFound(<<args[Min(Missing)]>>)>>
       /\ fatal = Nil
       /\ frames = <<>>
       /\ writes = 0

C5_Witness ==
    /\ runpc = "returned"
    /\ Len(args) = 3
    /\ Missing = {2}
    /\ RunsClean(<<args[1]>>, MaxFrames)

\* C6: the commands of one RunTask invocation start in index order and one at
\* a time, each after the one before it returned nil; after a command that
\* returned an error (a '^' command included) no command starts
C6_CommandsInOrder ==
    \A f \in DOMAIN frames :
        LET fr == frames[f]
            n == Len(fr.started)
        IN /\ fr.started = [k \in 1..n |-> k]
           /\ n > 0 => n <= Len(Cmds(fr))
           /\ Len(fr.res) = IF fr.pc \in {"exec", "sub"} THEN n - 1 ELSE n
           /\ \A k \in 1..(n - 1) : fr.res[k] = Nil
           /\ fr.pc = "cmds" => fr.i = n + 1
           /\ fr.pc \in {"exec", "sub"} => fr.i = n
           /\ (n > 0 /\ Len(fr.res) = n /\ fr.res[n] # Nil)
              => fr.pc = "done" /\ fr.err = TaskRunError(fr.name, fr.res[n])
           /\ (fr.pc = "done" /\ fr.err = Nil /\ ~fr.skipped) => n = Len(Cmds(fr))

C6_Witness ==
    \E f \in DOMAIN frames :
        /\ frames[f].pc = "done"
        /\ Len(frames[f].started) = 2
        /\ Len(Cmds(frames[f])) = 3
        /\ frames[f].res[2] # Nil
        /\ 2 \notin frames[f].procs

\* the files of a pattern list, and the test of the freshness rule: no
\* pattern is malformed, both lists match files, and every matched generated
\* file is strictly newer than every matched source
AnyGlobErr(patterns) == \E j \in 1..Len(patterns) : GlobErr(patterns[j])
Fresh(t, mt) ==
    /\ t.Sources # <<>> /\ t.Generates # <<>>
    /\ ~AnyGlobErr(t.Sources) /\ ~AnyGlobErr(t.Generates)
    /\ Matched(t.Sources, mt) # {} /\ Matched(t.Generates, mt) # {}
    /\ \A g \in Matched(t.Generates, mt) : \A x \in Matched(t.Sources, mt) : mt[g] > mt[x]

\* C7: isUpToDate is false when Sources or Generates is empty, when a pattern
\* list fails to resolve or matches no file, and otherwise true exactly when
\* the oldest matched generated file is strictly newer than the newest
\* matched source
C7_UpToDate ==
    /\ \A a \in DOMAIN Tasks : isUpToDate(Tasks[a], mtime) = Fresh(Tasks[a], mtime)
    /\ \A f \in DOMAIN frames :
          frames[f].checked
          => isUpToDate(TaskOf(frames[f]), frames[f].mtc)
                = Fresh(TaskOf(frames[f]), frames[f].mtc)

C7_Witness ==
    /\ writes > 0
    /\ \E f \in DOMAIN frames :
          /\ frames[f].skipped
          /\ isUpToDate(TaskOf(frames[f]), mtime)
          /\ Cardinality(Matched(TaskOf(frames[f]).Generates, mtime)) = 2
          /\ Cardinality(Matched(TaskOf(frames[f]).Sources, mtime)) = 2

\* C8: with Force set no RunTask invocation takes the up-to-date shortcut:
\* an invocation whose dependencies succeeded goes on to its commands, and
\* when it returns nil it has started all of them
C8_ForceRunsCommands ==
    Force
    => \A f \in DOMAIN frames :
          LET fr == frames[f]
          IN /\ ~fr.skipped
             /\ (fr.depsOk /\ fr.checked /\ Len(Cmds(fr)) > 0) => fr.i >= 1
             /\ (fr.depsOk /\ fr.pc = "done")
                => fr.checked /\ (Len(Cmds(fr)) > 0 => fr.started # <<>>)
             /\ (fr.depsOk /\ fr.pc = "done" /\ fr.err = Nil)
                => Len(fr.started) = Len(Cmds(fr))

C8_Witness ==
    /\ Force
    /\ \E f \in DOMAIN frames :
          /\ frames[f].kind = "sub"
          /\ frames[f].checked
          /\ isUpToDate(TaskOf(frames[f]), frames[f].mtc)
          /\ frames[f].pc = "done"
          /\ frames[f].started # <<>>
    /\ \E f \in DOMAIN frames :
          /\ frames[f].kind = "dep"
          /\ isUpToDate(TaskOf(frames[f]), frames[f].mtc)
          /\ frames[f].started # <<>>

\* f2 is the run of the request that follows the request f1 ran, for the
\* same task
SecondRun(f1, f2) ==
    /\ frames[f1].kind = "top" /\ frames[f2].kind = "top"
    /\ frames[f2].slot = frames[f1].slot + 1
    /\ frames[f2].name = frames[f1].name
    /\ frames[f1].pc = "done"

\* C9 as stated: of two runs of the same task with Force unset, the first of
\* which ran the commands of the task, the second starts none of them and
\* returns nil
C9_SecondRunSkips ==
    ~Force
    => \A f1, f2 \in DOMAIN frames :
          /\ SecondRun(f1, f2)
          /\ Len(frames[f1].started) = Len(Cmds(frames[f1]))
          /\ frames[f1].err = Nil
          /\ frames[f2].pc = "done"
          => /\ frames[f2].started = <<>>
             /\ frames[f2].err = Nil

\* C9 as amended: of two runs of the same task with Force unset, each takes
\* the shortcut (starts no command, returns nil) exactly when the task is
\* fresh at its freshness check, and starts the commands otherwise; nothing
\* changes the files between the end of the first run and the check of a
\* second run that has no dependencies
C9_SecondRunSkipsIfFresh ==
    ~Force
    => \A f1, f2 \in DOMAIN frames :
          SecondRun(f1, f2)
          => /\ \A f \in {f1, f2} :
                   LET fr == frames[f]
                   IN fr.checked
                      => /\ fr.skipped = Fresh(TaskOf(fr), fr.mtc)
                         /\ fr.skipped
                            => fr.pc = "done" /\ fr.started = <<>> /\ fr.err = Nil
                         /\ (~fr.skipped /\ Len(Cmds(fr)) > 0) => fr.i >= 1
                         /\ (~fr.skipped /\ fr.pc = "done" /\ Len(Cmds(fr)) > 0)
                            => fr.started # <<>>
             /\ (frames[f2].checked /\ Units(frames, f2) = {})
                => frames[f2].mtc = frames[f1].mte

C9_Witness ==
    /\ ~Force
    /\ \E f1, f2 \in DOMAIN frames :
          /\ SecondRun(f1, f2)
          /\ Len(frames[f1].started) = 2
          /\ frames[f2].skipped
          /\ frames[f2].pc = "done"

\* C10: a command that begins with '^' after substitution starts no process:
\* RunTask is called for the rest of the text, under the context of the
\* command, and runs as any RunTask does; runCommand returns what it returned
C10_SubTaskCommand ==
    \A f \in DOMAIN frames :
        \A k \in 1..Len(frames[f].started) :
            LET fr == frames[f]
                c == Command(TaskOf(fr), k)
                subs == {u \in DOMAIN frames :
                            /\ frames[u].kind = "sub"
                            /\ frames[u].parent = f
                            /\ frames[u].slot = k}
            IN (~handleVariables(TaskOf(fr)).err /\ ~c.err /\ HasPrefix(c.s))
               => /\ k \notin fr.procs
                  /\ Cardinality(subs) = 1
                  /\ \A u \in subs :
                        /\ frames[u].name = TrimPrefix(c.s)
                        /\ frames[u].ctx = fr.ctx
                        /\ k > Len(fr.res) => fr.pc = "sub"
                        /\ k <= Len(fr.res)
                           => frames[u].pc = "done" /\ fr.res[k] = frames[u].err
                        /\ (frames[u].pc = "done" /\ frames[u].err = Nil)
                           => /\ frames[u].depsOk /\ frames[u].checked
                              /\ \A d \in Units(frames, u) : frames[d].pc = "done"
                              /\ \/ frames[u].skipped
                                 \/ Len(frames[u].started) = Len(Cmds(frames[u]))

C10_Witness ==
    \E f \in DOMAIN frames :
        /\ Len(frames[f].res) >= 2
        /\ HasPrefix(Command(TaskOf(frames[f]), 2).s)
        /\ frames[f].res[2] # Nil
        /\ Cmds(frames[f])[2][1].k = "var"

\* a string without its trailing white space, and without its leading and
\* trailing white space
Solid(s) == {j \in 1..Len(s) : ~IsSpace(s[j])}
StripTrailing(s) == IF Solid(s) = {} THEN <<>> ELSE SubSeq(s, 1, Max(Solid(s)))
StripBoth(s) == IF Solid(s) = {} THEN <<>> ELSE SubSeq(s, Min(Solid(s)), Max(Solid(s)))

\* in this step the process of a command of frame f ended with status 0
ProcessSucceeds(f) ==
    /\ frames[f].pc = "exec"
    /\ Len(frames'[f].res) = Len(frames[f].res) + 1
    /\ frames'[f].res[Len(frames'[f].res)] = Nil

\* in this step frame f started the process of a command
ProcessStarts(f) == frames[f].pc = "cmds" /\ frames'[f].pc = "exec"

Output(fr) == ShellOutput(Command(TaskOf(fr), fr.i).s)

\* C11 as stated: when a command of a task with Set succeeds, the variable
\* holds the output of the command without its trailing white space
C11_SetTrailingTrimmed ==
    [][\A f \in DOMAIN frames :
          ProcessSucceeds(f) /\ TaskOf(frames[f]).Set # ""
          => environ'[TaskOf(frames[f]).Set] = StripTrailing(Output(frames[f]))]_vars

\* C11 as amended: when a command of a task with Set succeeds, the variable
\* holds the output of the command without its leading and trailing white
\* space; the process environment changes in no other step, and a process
\* that starts gets the process environment as it is then
C11_SetTrimmed ==
    [][/\ \A f \in DOMAIN frames :
            ProcessSucceeds(f) /\ TaskOf(frames[f]).Set # ""
            => environ' = [environ EXCEPT
                              ![TaskOf(frames[f]).Set] = StripBoth(Output(frames[f]))]
       /\ \A f \in DOMAIN frames :
            ProcessStarts(f)
            => frames'[f].envs[Len(frames'[f].envs)].base = environ
       /\ environ' # environ
          => \E f \in DOMAIN frames : ProcessSucceeds(f) /\ TaskOf(frames[f]).Set # ""]_vars

C11_Witness ==
    \E f \in DOMAIN frames :
        LET fr == frames[f]
            out == ShellOutput(Command(TaskOf(fr), 1).s)
        IN /\ Len(fr.envs) = 2
           /\ TaskOf(fr).Set # ""
           /\ StripBoth(out) # StripTrailing(out)
           /\ fr.envs[2].base[TaskOf(fr).Set] = StripBoth(out)
           /\ fr.envs[1].base[TaskOf(fr).Set] # StripBoth(out)

\* --------------------------------------------------------------------- C12

\* frame f runs under a context that a failing unit has cancelled: the group
\* of f or a group above it has kept an error
RECURSIVE UnderFailedGroup(_, _)
UnderFailedGroup(fs, c) ==
    c # 0 /\ (fs[c].gerr # Nil \/ UnderFailedGroup(fs, fs[c].ctx))

\* frame f begins running its dependencies in this step
BeginsDeps(f) == frames[f].pc = "call" /\ frames'[f].pc = "wait"

\* frame f begins running its commands in this step
BeginsCmds(f) == frames[f].pc = "check" /\ frames'[f].pc \in {"cmds", "exec"}

\* C12: once a failing unit has cancelled the context of a runDeps call, no
\* RunTask invocation under that context begins running its dependencies or
\* its commands
C12_NoStartAfterCancel ==
    [][\A f \in DOMAIN frames :
          UnderFailedGroup(frames, frames[f].ctx) /\ Cancelled(frames, frames[f].ctx)
          => ~BeginsDeps(f) /\ ~BeginsCmds(f)]_vars

\* --------------------------------------------------------------------- C13

\* frame u is a RunTask run beneath frame v: called by v or by a run beneath v
RECURSIVE Beneath(_, _)
Beneath(u, v) ==
    frames[u].parent # 0 /\ (frames[u].parent = v \/ Beneath(frames[u].parent, v))

\* runDeps of frame f has returned
DepsReturned(f) == frames[f].pc \in {"check", "cmds", "exec", "sub"} \/
                   (frames[f].pc = "done" /\ Exists(frames[f].name))

\* C13: when runDeps has returned, with nil or with the first error, one unit
\* was launched for each Deps entry, every unit has finished and so has every
\* task run beneath a unit
C13_AllUnitsFinished ==
    \A f \in DOMAIN frames :
        DepsReturned(f) /\ ~handleVariables(TaskOf(frames[f])).err
        => /\ \A j \in 1..Len(Deps(frames[f])) :
                \E u \in Units(frames, f) : frames[u].slot = j
           /\ \A u \in Units(frames, f) :
                /\ frames[u].pc = "done"
                /\ \A w \in DOMAIN frames : Beneath(w, u) => frames[w].pc = "done"

\* runDeps returned an error while a sibling of the failing unit, which went
\* on after the failure, had run its dependency and its command
C13_Witness ==
    \E f \in DOMAIN frames :
        /\ frames[f].pc = "done" /\ Exists(frames[f].name)
        /\ frames[f].gerr # Nil
        /\ \E u, v, w \in DOMAIN frames :
             /\ u \in Units(frames, f) /\ v \in Units(frames, f) /\ u # v
             /\ frames[u].err = frames[f].gerr
             /\ frames[v].err = Nil /\ frames[v].procs # {}
             /\ Beneath(w, v) /\ frames[w].procs # {}

\* --------------------------------------------------------------------- C14

\* how many times command i of the task called name was started
Executions(name, i) ==
    Cardinality({p \in (DOMAIN frames) \X (1..Len(Tasks[name].Cmds)) :
                   /\ frames[p[1]].name = <<name>>
                   /\ p[2] \in DOMAIN frames[p[1]].started
                   /\ frames[p[1]].started[p[2]] = i})

\* C14: task runs are not deduplicated. A RunTask whose runDeps has begun has
\* exactly one unit for each entry of Deps, whatever other runs of the same
\* tasks there are, and each unit runs the task its entry names; with Force and
\* the diamond A -> {B, C}, B -> D, C -> D, a successful run of A has executed
\* every command of D exactly twice
C14_NoDeduplication ==
    /\ \A f \in DOMAIN frames :
         frames[f].pc # "call" /\ Exists(frames[f].name)
         /\ ~handleVariables(TaskOf(frames[f])).err
         => /\ Cardinality(Units(frames, f)) = Len(Deps(frames[f]))
            /\ \A j \in 1..Len(Deps(frames[f])) :
                 \E u \in Units(frames, f) :
                    /\ frames[u].slot = j
                    /\ frames[u].pc # "call" /\ frames[u].name # <<>>
                       => frames[u].name =
                            ReplaceVariables(Deps(frames[f])[j],
                                             handleVariables(TaskOf(frames[f])).vars).s
    /\ Tasks = RegDiamond /\ args = <<"A">> /\ Force /\ runpc = "done"
       => \A i \in 1..Len(RegDiamond.D.Cmds) : Executions("D", i) = 2

\* the two runs of D in the diamond have each a process running at the same
\* time
C14_Witness ==
    /\ Tasks = RegDiamond /\ Force
    /\ \E u, v \in DOMAIN frames :
         /\ u # v
         /\ frames[u].name = <<"D">> /\ frames[v].name = <<"D">>
         /\ frames[u].pc = "exec" /\ frames[v].pc = "exec"

\* --------------------------------------------------------------------- C15

\* the process of the last command frame o ran failed: RunTask of o ended on
\* the failure of an external command of its own task
CommandFailed(o) ==
    /\ frames[o].pc = "done" /\ Exists(frames[o].name)
    /\ Len(frames[o].res) > 0
    /\ Len(frames[o].res) \in frames[o].procs
    /\ frames[o].res[Len(frames[o].res)] # Nil

\* the error runDeps of frame f returned came from frame o, through the
\* runDeps of every frame between them
RECURSIVE Carries(_, _)
Carries(f, o) ==
    \/ f = o
    \/ /\ frames[f].pc = "done" /\ frames[f].gerr # Nil
       /\ \E u \in Units(frames, f) :
            /\ u <= o
            /\ frames[u].pc = "done" /\ frames[u].err = frames[f].gerr
            /\ Carries(u, o)

\* C15: the failure of an external command is returned by RunTask wrapped with
\* the name of the task that owns the command; every runDeps above returns it
\* as it is, and so does its RunTask, up to the error Run ends with
C15_FailureNamesOwner ==
    \A f, o \in DOMAIN frames :
        frames[f].pc = "done" /\ CommandFailed(o) /\ Carries(f, o)
        => LET c == Command(TaskOf(frames[o]), Len(frames[o].res)).s
               e == TaskRunError(frames[o].name, ExitError(c))
           IN /\ frames[f].err = e
              /\ frames[f].kind = "top" /\ frames[f].slot = argi /\ runpc = "fatal"
                 => fatal = e

\* Run ended with the error of a command two dependency edges below the
\* requested task
C15_Witness ==
    /\ runpc = "fatal"
    /\ \E f, u, o \in DOMAIN frames :
         /\ frames[f].kind = "top" /\ frames[f].slot = argi
         /\ u \in Units(frames, f) /\ o \in Units(frames, u)
         /\ CommandFailed(o) /\ Carries(f, o)
         /\ frames[o].name # frames[f].name
         /\ fatal = TaskRunError(frames[o].name, frames[o].res[Len(frames[o].res)])

\* --------------------------------------------------------------------- C16

\* C16: Run calls RunTask for the requests one at a time and in their order:
\* request j has at most one RunTask, for args[j]; it is called only when the
\* RunTask of every request before it has returned nil; a RunTask that returns
\* an error ends the run with that error and no later request is started; Run
\* ends normally only when every request has returned nil
C16_RequestsInOrder ==
    /\ \A j \in 1..Len(args) :
         /\ Cardinality(TopFrames(j)) <= 1
         /\ \A f \in TopFrames(j) :
              /\ frames[f].name = <<args[j]>>
              /\ \A k \in 1..(j - 1) :
                   \E p \in TopFrames(k) :
                      p < f /\ frames[p].pc = "done" /\ frames[p].err = Nil
              /\ frames[f].pc = "done" /\ frames[f].err # Nil
                 => /\ runpc \in {"wait", "fatal"}
                    /\ argi = j
                    /\ runpc = "fatal" => fatal = frames[f].err
                    /\ \A k \in (j + 1)..Len(args) : TopFrames(k) = {}
    /\ runpc = "done"
       => \A j \in 1..Len(args) :
             \E f \in TopFrames(j) : frames[f].pc = "done" /\ frames[f].err = Nil

\* of three or two requests the first ran its commands and returned nil, the
\* second was then run and failed, and Run ended on its error
C16_Witness ==
    /\ Len(args) >= 2 /\ runpc = "fatal" /\ argi = 2
    /\ \E p \in TopFrames(1), f \in TopFrames(2) :
         /\ frames[p].err = Nil /\ frames[p].procs # {}
         /\ frames[f].pc = "done" /\ frames[f].err # Nil /\ fatal = frames[f].err

\* --------------------------------------------------------------------- C17

\* C17: RunTask evaluates isUpToDate only after runDeps has returned nil: by
\* then every Deps entry has a unit whose RunTask ran to its end, with its own
\* freshness check, and returned nil. A RunTask one of whose units failed
\* never evaluates the freshness check, runs no command and returns an
\* error, whether or not its task is up to date
C17_CheckAfterDeps ==
    \A f \in DOMAIN frames :
        /\ frames[f].checked \/ frames[f].skipped
           => /\ frames[f].depsOk /\ frames[f].gerr = Nil
              /\ \A j \in 1..Len(Deps(frames[f])) :
                   \E u \in Units(frames, f) :
                      /\ frames[u].slot = j
                      /\ frames[u].pc = "done" /\ frames[u].err = Nil
                      /\ frames[u].checked
        /\ (\E u \in Units(frames, f) : frames[u].pc = "done" /\ frames[u].err # Nil)
           => /\ ~frames[f].checked /\ ~frames[f].skipped
              /\ frames[f].started = <<>>
              /\ frames[f].pc \in {"wait", "done"}
              /\ frames[f].pc = "done" => frames[f].err # Nil

\* without Force, RunTask returned the error of a dependency although its
\* task was up to date when it returned
C17_Witness ==
    /\ ~Force
    /\ \E f \in DOMAIN frames :
         /\ frames[f].pc = "done" /\ Exists(frames[f].name)
         /\ frames[f].gerr # Nil /\ frames[f].err = frames[f].gerr
         /\ isUpToDate(TaskOf(frames[f]), frames[f].mte)

\* --------------------------------------------------------------------- C18

\* C18: in a registry that passes the cycle check of Run, no RunTask runs a
\* task that a RunTask above it on the same call chain, through Deps entries
\* and '^' commands, is still running
C18_NoReentry ==
    ~HasCyclicDep(Tasks)
    => \A f, a \in DOMAIN frames :
          Beneath(f, a) /\ frames[a].pc # "done"
          /\ frames[f].pc # "call" /\ Exists(frames[f].name)
          => frames[f].name # frames[a].name

\* --------------------------------------------------------------------- C19

\* the entries of the Env of task t, key and value substituted
EnvOf(t) ==
    {<<ReplaceVariables(e.k, handleVariables(t).vars).s,
       ReplaceVariables(e.v, handleVariables(t).vars).s>> : e \in t.Env}

\* the process environment holds nothing but what Set assignments gave it
OnlySetValues(env) ==
    \A n \in EnvNames :
        \/ env[n] = <<>>
        \/ \E a \in DOMAIN Tasks :
             /\ Tasks[a].Set = n
             /\ \E i \in 1..Len(Tasks[a].Cmds) :
                  env[n] = StripBoth(ShellOutput(Command(Tasks[a], i).s))

\* C19: the entries of a task's Env go to the processes of that task's own
\* commands and nowhere else: each process gets the process environment as
\* it is, followed by the Env entries of its own task; the process
\* environment never holds an Env entry, so no command of another task sees
\* one; and the process environment changes only in the Set assignment that
\* follows a successful command of a task with Set
C19_EnvStaysLocal ==
    /\ [](/\ OnlySetValues(environ)
          /\ \A f \in DOMAIN frames :
               \A k \in DOMAIN frames[f].envs :
                  /\ {frames[f].envs[k].extra[j] :
                         j \in DOMAIN frames[f].envs[k].extra}
                        = EnvOf(TaskOf(frames[f]))
                  /\ Len(frames[f].envs[k].extra)
                        = Cardinality(TaskOf(frames[f]).Env)
                  /\ OnlySetValues(frames[f].envs[k].base))
    /\ [][environ' # environ
          => \E f \in DOMAIN frames :
                /\ ProcessSucceeds(f)
                /\ TaskOf(frames[f]).Set # ""
                /\ environ' = [environ EXCEPT ![TaskOf(frames[f]).Set] =
                                  StripBoth(Output(frames[f]))]]_vars

\* a task without Env ran, as a '^' command, a task whose commands got Env
\* entries and the variable the task had set; the process of its next command
\* got none of the Env entries
C19_Witness ==
    \E f, b \in DOMAIN frames :
        /\ frames[b].kind = "sub" /\ frames[b].parent = f /\ frames[b].pc = "done"
        /\ Exists(frames[b].name)
        /\ TaskOf(frames[f]).Env = {}
        /\ TaskOf(frames[b]).Env # {} /\ TaskOf(frames[b]).Set # ""
        /\ \E p \in DOMAIN frames[b].envs :
             /\ frames[b].envs[p].extra # <<>>
             /\ frames[b].envs[p].base[TaskOf(frames[b]).Set] # <<>>
        /\ \E k \in DOMAIN frames[f].envs :
             /\ frames[f].envs[k].cmd > frames[b].slot
             /\ frames[f].envs[k].extra = <<>>
             /\ \A e \in EnvOf(TaskOf(frames[b])) :
                  \A n \in EnvNames : e[1] = <<n>> => frames[f].envs[k].base[n] # e[2]

\* --------------------------------------------------------------------- C20

\* the command frame f is at fails in the step f takes next: a substitution
\* for it fails, or its '^' task returned an error, or its process fails
CommandFails(f) ==
    LET fr == frames[f]
        t == TaskOf(fr)
        hv == handleVariables(t)
        c == Command(t, fr.i)
    IN \/ /\ fr.pc = "cmds"
          /\ \/ hv.err
             \/ c.err
             \/ /\ ~HasPrefix(c.s)
                /\ \/ ReplaceVariables(t.Dir, hv.vars).err
                   \/ \E e \in t.Env : \/ ReplaceVariables(e.k, hv.vars).err
                                       \/ ReplaceVariables(e.v, hv.vars).err
       \/ /\ fr.pc = "sub"
          /\ frames[SubFrame(frames, f)].err # Nil
       \/ /\ fr.pc = "exec"
          /\ ~ShellOk(c.s)

\* C20: when a command of a task with Set fails, in its substitutions or in
\* its process, the step in which it fails leaves the process environment,
\* and so the variable Set names, as it was, and runCommand returns an error,
\* with which RunTask ends
C20_FailedCommandKeepsSet ==
    [][\A f \in DOMAIN frames :
          (/\ frames[f].pc \in {"cmds", "sub", "exec"}
           /\ TaskOf(frames[f]).Set # ""
           /\ frames'[f] # frames[f]
           /\ CommandFails(f))
          => /\ environ' = environ
             /\ Len(frames'[f].res) = Len(frames[f].res) + 1
             /\ frames'[f].res[Len(frames'[f].res)] # Nil
             /\ frames'[f].pc = "done"
             /\ frames'[f].err = TaskRunError(frames[f].name,
                                              frames'[f].res[Len(frames'[f].res)])]_vars

\* the second command of a task with Set failed in its process, and the
\* variable still has the output of the first command, which is not what the
\* second one wrote
C20_Witness ==
    \E f \in DOMAIN frames :
        /\ frames[f].pc = "done" /\ Exists(frames[f].name)
        /\ TaskOf(frames[f]).Set # ""
        /\ Len(frames[f].res) = 2 /\ frames[f].procs = {1, 2}
        /\ frames[f].res[1] = Nil /\ frames[f].res[2] # Nil
        /\ environ[TaskOf(frames[f]).Set]
              = StripBoth(ShellOutput(Command(TaskOf(frames[f]), 1).s))
        /\ environ[TaskOf(frames[f]).Set]
              # StripBoth(ShellOutput(Command(TaskOf(frames[f]), 2).s))

====
